---- MODULE Spec2Model ----
(***************************************************************************)
(* Model of src/remote_id/new_scheme.c: the Open Drone ID transmitter with *)
(* an ECDSA-signed authentication record.  The module models sign_data and *)
(* its page fragmentation, the transmission functions, gps_loop, the       *)
(* signal handler and main, as a state machine of the main thread and the  *)
(* GPS thread.                                                             *)
(***************************************************************************)
EXTENDS Integers, Sequences, FiniteSets, TLC

(* ------------------------------------------------------------------ *)
(* Program constants                                                   *)
(* ------------------------------------------------------------------ *)

\* The literal 17 of sign_data: bytes of the signature copied to page 0 first.
ZeroPageReserve == 17

\* sizeof(uasData->Auth[i].AuthData); sign_data divides by the same number.
AuthDataSize == 24

\* Number of entries of uasData->Auth[] (opendroneid.h, ODID_AUTH_MAX_PAGES).
ODID_AUTH_MAX_PAGES == 16

\* The authentication pages the transmitter sends: Auth[0], Auth[1], Auth[2].
SentAuthPages == 3

\* ECDSA_size(ec_key) for secp256k1: the size of the malloc'ed buffer and the
\* largest DER signature; the shortest DER signature is 8 bytes.
MaxSigLen == 72
MinSigLen == 8

\* Counters are uint8_t.
CounterMod == 256

\* Stand-in for 2^64, the width of size_t: only the comparison of a wrapped
\* difference with sizeof(AuthData) is ever used, and TLC's integers are 32 bits.
SizeTMod == 2^30

(* ------------------------------------------------------------------ *)
(* Bounds of the model                                                 *)
(* ------------------------------------------------------------------ *)

\* gpsmod.h sets these two; the model is parametric in them.
MAX_GPS_WAIT_RETRIES == 2
MAX_GPS_READ_RETRIES == 1

\* Transmission cycles of the GPS-mode loop that the model follows.
MaxCycles == 2

\* Location fixes the GPS thread writes into the store.
MaxFixes == 1

VARIABLES
    main_pc,        \* position of the main thread
    config,         \* struct config_data flags (use_*)
    exit_code,      \* the process's exit code, -1 while running
    kill_program,   \* static bool kill_program
    ecdsa_len,      \* the length ECDSA_sign will return (input)
    ecdsa_ok,       \* what ECDSA_verify will return (input)
    sign_pc,        \* position inside sign_data
    signature_len,  \* uint32_t signature_len
    verification,   \* bool verification
    pages,          \* int pages
    sign_i,         \* loop variable i of sign_data
    Auth,           \* uasData->Auth[]
    populated,      \* ghost: bytes the fragmentation loop copied into each page
    written,        \* ghost: the pages the fragmentation loop has written
    read_past,      \* ghost: a memcpy read the signature buffer at or past signature_len
    location,       \* uasData->Location: 0 is the initial data, n the n-th GPS fix
    msg_counters,   \* config.msg_counters[]
    tx_pc,          \* position inside send_single_messages / send_packs
    tx_step,        \* the next single message, or the loop variable i of send_packs
    cycles,         \* transmission cycles started
    encoded,        \* union ODID_Message_encoded encoded (the local buffer)
    pack_enc,       \* struct ODID_MessagePack_encoded pack_enc
    last_enc_ok,    \* ghost: whether the encoding of the latest step succeeded
    last_tx,        \* ghost: the transport send calls of the latest step, in order
    n_dispatched,   \* ghost: number of transport send calls so far
    bt_open,        \* the Bluetooth device is initialised and not yet closed
    semaphore,      \* sem_t semaphore
    ap_pc,          \* the beacon-interface thread (ap_interface_init)
    handlers,       \* the signal handlers are installed
    cleanup_code,   \* the argument of cleanup
    gps_open,       \* init_gps succeeded and gps_close has not run
    gps_pc,         \* position of the GPS thread
    retries,        \* int retries of gps_loop
    read_retries,   \* int read_retries of gps_loop
    exit_status,    \* args.exit_status
    fixes,          \* ghost: successful GPS reads so far
    gps_event,      \* ghost: the latest poll or read outcome of gps_loop
    not_ready_run,  \* ghost: not-ready polls since the latest ready poll
    reset_seen,     \* ghost: a successful read found read_retries above zero
    signalled,      \* ghost: sig_handler has run
    faulty,         \* the transports whose send primitive reports an error
    uasA,           \* a record handed to the digest of sign_data
    uasB,           \* a second record handed to the digest
    hashA,          \* the input SHA256_Final digests for uasA
    hashB,          \* the input SHA256_Final digests for uasB
    hash_pc         \* "idle" | "done": the two digests have been computed

signVars == <<ecdsa_len, ecdsa_ok, sign_pc, signature_len, verification, pages,
              sign_i, Auth, populated, written, read_past>>

(* ------------------------------------------------------------------ *)
(* sign_data                                                           *)
(* ------------------------------------------------------------------ *)

MINIMUM(a, b) == IF a < b THEN a ELSE b

\* a - b in size_t arithmetic.
SizeTSub(a, b) == (a - b) % SizeTMod

PageIndex == 0 .. (ODID_AUTH_MAX_PAGES - 1)

\* Byte j (0-based) of the signature ECDSA_sign produced: every position holds
\* its own value, so that misplaced bytes are visible.
SigByte(j) == j + 1

\* The bytes a read at or past signature_len can return: the buffer is
\* malloc'ed and only signature_len bytes are written.
GarbageBytes == {0, 255}

\* signature[off] as memcpy reads it; g is what stale or foreign memory holds.
ReadSig(off, len, g) == IF off < len THEN SigByte(off) ELSE g

\* memcpy(dst, signature + off, n)
MemcpySig(dst, off, n, len, g) ==
    [k \in 1 .. AuthDataSize |-> IF k <= n THEN ReadSig(off + k - 1, len, g) ELSE dst[k]]

ZeroData == [k \in 1 .. AuthDataSize |-> 0]

\* The digits of the example strings "1234567890...": chars '1'..'9','0'.
ExampleChar(k) == 48 + (k % 10)

\* memcpy of a string literal of n characters and its terminating NUL.
ExampleData(n) == [k \in 1 .. AuthDataSize |-> IF k <= n THEN ExampleChar(k) ELSE 0]

ZeroAuthPage ==
    [AuthType |-> "NONE", DataPage |-> 0, LastPageIndex |-> 0, Length |-> 0,
     AuthData |-> ZeroData]

\* odid_initUasData: every page zeroed.
InitialAuth == [p \in PageIndex |-> ZeroAuthPage]

\* The authentication pages fill_example_data writes.
ExampleAuth ==
    [p \in PageIndex |->
        CASE p = 0 -> [AuthType |-> "UAS_ID_SIGNATURE", DataPage |-> 0,
                       LastPageIndex |-> 2, Length |-> 63,
                       AuthData |-> ExampleData(17)]
          [] p = 1 -> [ZeroAuthPage EXCEPT !.AuthType = "UAS_ID_SIGNATURE",
                       !.DataPage = 1, !.AuthData = ExampleData(23)]
          [] p = 2 -> [ZeroAuthPage EXCEPT !.AuthType = "UAS_ID_SIGNATURE",
                       !.DataPage = 2, !.AuthData = ExampleData(23)]
          [] OTHER -> ZeroAuthPage]

\* int pages = signature_len/24 + 1;
PageCount(len) == (len \div AuthDataSize) + 1

\* The length argument of the loop's memcpy:
\* MINIMUM(signature_len - sizeof(AuthData)*i - 17, sizeof(AuthData)), in size_t.
CopyLength(len, i) ==
    MINIMUM(SizeTSub(SizeTSub(len, AuthDataSize * i), ZeroPageReserve), AuthDataSize)

\* The source offset of the loop's memcpy: signature + i*sizeof(AuthData) + 17.
CopyOffset(i) == i * AuthDataSize + ZeroPageReserve

\* One iteration of the fragmentation loop on the page array.
FragmentPage(auth, len, i, g) ==
    [auth EXCEPT
        ![0].LastPageIndex = i + 1,
        ![i] = [@ EXCEPT !.AuthType = "UAS_ID_SIGNATURE",
                         !.DataPage = i,
                         !.LastPageIndex = IF i = 0 THEN i + 1 ELSE @,
                         !.AuthData = MemcpySig(@, CopyOffset(i), CopyLength(len, i), len, g)]]

\* Lines 89-111: digest, ECDSA_sign, ECDSA_verify (its result is only printed).
SignData_Sign ==
    /\ main_pc = "sign" /\ sign_pc = "start"
    /\ signature_len' = ecdsa_len
    /\ verification' = ecdsa_ok
    /\ sign_pc' = "signed"
    /\ UNCHANGED <<ecdsa_len, ecdsa_ok, pages, sign_i, Auth, populated, written, read_past>>

\* Lines 112-115: page count, Length and the first 17 bytes into page 0.
SignData_PageZero ==
    /\ main_pc = "sign" /\ sign_pc = "signed"
    /\ pages' = PageCount(signature_len)
    /\ \E g \in GarbageBytes :
         /\ (signature_len >= ZeroPageReserve => g = 0)
         /\ Auth' = [Auth EXCEPT
                ![0].Length = signature_len % CounterMod,
                ![0].AuthData = MemcpySig(@, 0, ZeroPageReserve, signature_len, g)]
    /\ read_past' = (read_past \/ signature_len < ZeroPageReserve)
    /\ sign_i' = 0
    /\ sign_pc' = "loop"
    /\ UNCHANGED <<ecdsa_len, ecdsa_ok, signature_len, verification, populated, written>>

\* Lines 117-123: one iteration of the loop, i < pages.
SignData_Fragment ==
    /\ main_pc = "sign" /\ sign_pc = "loop"
    /\ sign_i < pages
    /\ \E g \in GarbageBytes :
         /\ (CopyOffset(sign_i) + CopyLength(signature_len, sign_i) <= signature_len => g = 0)
         /\ Auth' = FragmentPage(Auth, signature_len, sign_i, g)
    /\ populated' = [populated EXCEPT ![sign_i] = CopyLength(signature_len, sign_i)]
    /\ written' = written \cup {sign_i}
    /\ read_past' = (read_past
                     \/ CopyOffset(sign_i) + CopyLength(signature_len, sign_i) > signature_len)
    /\ sign_i' = sign_i + 1
    /\ UNCHANGED <<ecdsa_len, ecdsa_ok, sign_pc, signature_len, verification, pages>>

\* Lines 117, 124-125: the loop ends, the buffer is freed, sign_data returns.
SignData_Return ==
    /\ main_pc = "sign" /\ sign_pc = "loop"
    /\ sign_i >= pages
    /\ sign_pc' = "returned"
    /\ UNCHANGED <<ecdsa_len, ecdsa_ok, signature_len, verification, pages, sign_i,
                   Auth, populated, written, read_past>>

SignDataStep ==
    \/ SignData_Sign
    \/ SignData_PageZero
    \/ SignData_Fragment
    \/ SignData_Return

(* ------------------------------------------------------------------ *)
(* Variable groups                                                     *)
(* ------------------------------------------------------------------ *)

txVars == <<msg_counters, tx_pc, tx_step, cycles, encoded, pack_enc, last_enc_ok,
            last_tx, n_dispatched>>

gpsVars == <<gps_pc, retries, read_retries, exit_status, fixes, gps_event,
             not_ready_run, reset_seen>>

mainVars == <<main_pc, config, exit_code, bt_open, semaphore, ap_pc, handlers,
              cleanup_code, gps_open>>

digestVars == <<uasA, uasB, hashA, hashB, hash_pc>>

vars == <<mainVars, kill_program, signalled, faulty, digestVars, location, signVars,
         txVars, gpsVars>>

(* ------------------------------------------------------------------ *)
(* send_message, send_single_messages, create_message_pack, send_packs *)
(* ------------------------------------------------------------------ *)

CounterNames ==
    {"BASIC_ID", "LOCATION", "AUTH", "SELF_ID", "SYSTEM", "OPERATOR_ID", "PACKED"}

\* The messages of send_single_messages and create_message_pack, in code order,
\* each with the counter send_single_messages passes.
SingleMessages ==
    << [msg |-> "BasicID0",   ctr |-> "BASIC_ID"],
       [msg |-> "BasicID1",   ctr |-> "BASIC_ID"],
       [msg |-> "Location",   ctr |-> "LOCATION"],
       [msg |-> "Auth0",      ctr |-> "AUTH"],
       [msg |-> "Auth1",      ctr |-> "AUTH"],
       [msg |-> "Auth2",      ctr |-> "AUTH"],
       [msg |-> "SelfID",     ctr |-> "SELF_ID"],
       [msg |-> "System",     ctr |-> "SYSTEM"],
       [msg |-> "OperatorID", ctr |-> "OPERATOR_ID"] >>

\* memset(&encoded, 0, ...) / = { 0 }
ZeroEncoded == [msg |-> "zero", loc |-> [Latitude |-> 0, Longitude |-> 0]]

\* What a successful encode*Message leaves in the buffer: the message, and for
\* the location message the location it was encoded from.
EncodeMessage(m, loc) ==
    [msg |-> m, loc |-> IF m = "Location" THEN loc ELSE [Latitude |-> 0, Longitude |-> 0]]

\* = { 0 } for pack_enc.
ZeroPack == [ok |-> FALSE, Messages |-> <<>>]

\* uint8_t post-increment.
CounterIncrement(c) == (c + 1) % CounterMod

\* One call of a transport's send primitive: what it was given and what it
\* reported.  The callers use none of the reports.
SendCall(t, ctr, data) ==
    [transport |-> t, counter |-> ctr, payload |-> data,
     result |-> IF t \in faulty THEN "error" ELSE "ok"]

\* A send_message that returns at the first transport error.
SendMessage_StopOnError(enc, cfg, ctr) ==
    IF cfg.use_btl /\ "btl" \in faulty
       THEN << SendCall("btl", ctr, enc) >>
       ELSE (IF cfg.use_btl THEN << SendCall("btl", ctr, enc) >> ELSE << >>)
            \o (IF cfg.use_bt4 \/ cfg.use_bt5
                   THEN << SendCall("bt_ext", ctr, enc) >>
                        \o (IF cfg.use_beacon /\ "bt_ext" \notin faulty
                               THEN << SendCall("beacon", ctr, enc) >> ELSE << >>)
                   ELSE (IF cfg.use_beacon THEN << SendCall("beacon", ctr, enc) >> ELSE << >>))

\* send_message: the transport send calls it makes, in order.
SendMessage(enc, cfg, ctr) ==
    (IF cfg.use_btl THEN << SendCall("btl", ctr, enc) >> ELSE << >>)
    \o (IF cfg.use_bt4 \/ cfg.use_bt5 THEN << SendCall("bt_ext", ctr, enc) >> ELSE << >>)
    \o (IF cfg.use_beacon THEN << SendCall("beacon", ctr, enc) >> ELSE << >>)

\* A return from a send function that, without GPS, leads to another call.
TxReturn_Again ==
    /\ tx_pc' = "idle"
    /\ tx_step' = 0
    /\ main_pc' = (IF config.use_gps THEN "loop" ELSE "mode")
    /\ UNCHANGED cleanup_code

\* The statement after a send function returns: the GPS-mode loop (line 528) or
\* cleanup(EXIT_SUCCESS) (line 546).
TxReturn ==
    /\ tx_pc' = "idle"
    /\ tx_step' = 0
    /\ IF config.use_gps
          THEN main_pc' = "loop" /\ UNCHANGED cleanup_code
          ELSE main_pc' = "cleanup_bt" /\ cleanup_code' = 0

\* Lines 252-283: one encode and send_message of send_single_messages.  The
\* result of the encoder is only printed: the buffer is sent, and the counter
\* incremented, whether or not the encoding succeeded.
SendSingleMessage ==
    /\ main_pc = "tx" /\ tx_pc = "single"
    /\ \E ok \in BOOLEAN :
         LET m     == SingleMessages[tx_step + 1]
             enc   == IF ok THEN EncodeMessage(m.msg, location) ELSE encoded
             calls == SendMessage(enc, config, msg_counters[m.ctr])
         IN  /\ encoded' = enc
             /\ last_enc_ok' = ok
             /\ last_tx' = calls
             /\ n_dispatched' = n_dispatched + Len(calls)
             /\ msg_counters' = [msg_counters EXCEPT ![m.ctr] = CounterIncrement(@)]
    /\ IF tx_step + 1 = Len(SingleMessages)
          THEN TxReturn
          ELSE /\ tx_step' = tx_step + 1
               /\ UNCHANGED <<tx_pc, main_pc, cleanup_code>>
    /\ UNCHANGED <<config, exit_code, bt_open, semaphore, ap_pc, handlers, gps_open,
                   kill_program, signalled, faulty, digestVars, location, signVars, cycles, pack_enc, gpsVars>>

\* The encoder failures create_message_pack is followed through: none, one
\* message (its index in SingleMessages), or the pack encoder (0).
PackFailures == {-1, 0, 3}

RECURSIVE PackMessages(_, _, _)
\* pack_data.Messages[0 .. k-1]: each slot is a copy of the buffer after the
\* k-th encode, which a failed encode leaves as the previous one left it.
PackMessages(k, failing, loc) ==
    IF k = 0 THEN << >>
    ELSE LET before == PackMessages(k - 1, failing, loc)
             prev   == IF k = 1 THEN ZeroEncoded ELSE before[k - 1]
         IN  Append(before,
                    IF failing = k THEN prev ELSE EncodeMessage(SingleMessages[k].msg, loc))

\* Lines 324-325: create_message_pack.  Failures are only printed.
CreateMessagePack ==
    /\ main_pc = "tx" /\ tx_pc = "pack_create"
    /\ \E failing \in PackFailures :
         /\ pack_enc' = IF failing = 0
                           THEN ZeroPack
                           ELSE [ok |-> TRUE,
                                 Messages |-> PackMessages(Len(SingleMessages), failing,
                                                           location)]
         /\ last_enc_ok' = (failing = -1)
    /\ tx_pc' = "pack_send"
    /\ tx_step' = 0
    /\ UNCHANGED <<mainVars, kill_program, signalled, faulty, digestVars, location, signVars, msg_counters,
                   cycles, encoded, last_tx, n_dispatched, gpsVars>>

\* The number of pack transmissions of one send_packs call.
PackRepeats == 10

\* The body of the loop of send_packs: the transport send calls, in order, each
\* with its own post-increment of the PACKED counter.
SendPackCalls(pack, cfg, ctr) ==
    LET first == IF cfg.use_beacon THEN << SendCall("beacon", ctr, pack) >> ELSE << >>
        ctr2  == IF cfg.use_beacon THEN CounterIncrement(ctr) ELSE ctr
    IN  first \o (IF cfg.use_bt5 THEN << SendCall("bt5", ctr2, pack) >> ELSE << >>)

RECURSIVE IncrementTimes(_, _)
IncrementTimes(c, n) == IF n = 0 THEN c ELSE IncrementTimes(CounterIncrement(c), n - 1)

\* A loop of send_packs that encodes the pack from the store again before
\* each transmission.
SendPack_Reencode ==
    /\ main_pc = "tx" /\ tx_pc = "pack_send"
    /\ LET fresh == [ok |-> TRUE,
                     Messages |-> PackMessages(Len(SingleMessages), -1, location)]
           calls == SendPackCalls(fresh, config, msg_counters["PACKED"])
       IN  /\ pack_enc' = fresh
           /\ last_tx' = calls
           /\ n_dispatched' = n_dispatched + Len(calls)
           /\ msg_counters' = [msg_counters EXCEPT !["PACKED"] = IncrementTimes(@, Len(calls))]
    /\ IF tx_step + 1 = PackRepeats
          THEN TxReturn
          ELSE /\ tx_step' = tx_step + 1
               /\ UNCHANGED <<tx_pc, main_pc, cleanup_code>>
    /\ UNCHANGED <<config, exit_code, bt_open, semaphore, ap_pc, handlers, gps_open,
                   kill_program, signalled, faulty, digestVars, location, signVars, cycles,
                   encoded, last_enc_ok, gpsVars>>

\* Lines 327-333: one iteration of the loop of send_packs.
SendPack ==
    /\ main_pc = "tx" /\ tx_pc = "pack_send"
    /\ LET calls == SendPackCalls(pack_enc, config, msg_counters["PACKED"])
       IN  /\ last_tx' = calls
           /\ n_dispatched' = n_dispatched + Len(calls)
           /\ msg_counters' = [msg_counters EXCEPT !["PACKED"] = IncrementTimes(@, Len(calls))]
    /\ IF tx_step + 1 = PackRepeats
          THEN TxReturn
          ELSE /\ tx_step' = tx_step + 1
               /\ UNCHANGED <<tx_pc, main_pc, cleanup_code>>
    /\ UNCHANGED <<config, exit_code, bt_open, semaphore, ap_pc, handlers, gps_open,
                   kill_program, signalled, faulty, digestVars, location, signVars, cycles, encoded, pack_enc,
                   last_enc_ok, gpsVars>>

\* The call of send_packs or send_single_messages (lines 534-537, 540-543) and
\* the initialisation of the callee's locals.
BeginTransmission ==
    /\ main_pc' = "tx"
    /\ tx_pc' = IF config.use_packs THEN "pack_create" ELSE "single"
    /\ tx_step' = 0
    /\ cycles' = cycles + 1
    /\ encoded' = ZeroEncoded
    /\ pack_enc' = ZeroPack

TransmitStep == SendSingleMessage \/ CreateMessagePack \/ SendPack

(* ------------------------------------------------------------------ *)
(* gps_loop and sig_handler                                            *)
(* ------------------------------------------------------------------ *)

\* retries++ > MAX_GPS_WAIT_RETRIES: the comparison reads the value before the increment.
WaitRetriesExceeded(r) == r > MAX_GPS_WAIT_RETRIES

\* read_retries++ > MAX_GPS_READ_RETRIES
ReadRetriesExceeded(r) == r > MAX_GPS_READ_RETRIES

\* Mutant: a successful read that leaves read_retries as it was.
ReadRetriesAfter_NoReset(ok, r) == IF ok THEN r ELSE r + 1

\* read_retries after a gps_read: line 452 on success, the post-increment of line 444 otherwise.
ReadRetriesAfter(ok, r) == IF ok THEN 0 ELSE r + 1

\* Mutant: the exit on an exceeded budget leaves the flag as it was.
KillOnExhaustion_Unset == kill_program

\* kill_program after a retry budget is exceeded (lines 433, 446).
KillOnExhaustion == TRUE

\* Lines 433-435 and 446-448: the exit of gps_loop on an exceeded budget.
GpsLoop_Fail ==
    /\ kill_program' = KillOnExhaustion
    /\ exit_status' = 1
    /\ gps_pc' = "exited"

\* A loop top that does not look at kill_program.
GpsLoop_Top_IgnoreKill ==
    /\ main_pc # "exited" /\ gps_pc = "top"
    /\ gps_pc' = "wait"
    /\ UNCHANGED <<mainVars, kill_program, signalled, faulty, digestVars, location, signVars, txVars,
                   retries, read_retries, exit_status, fixes, gps_event, not_ready_run,
                   reset_seen>>

\* Lines 423-425, 458-459: the top of the loop; a set kill_program ends the thread.
GpsLoop_Top ==
    /\ main_pc # "exited" /\ gps_pc = "top"
    /\ IF kill_program
          THEN exit_status' = 0 /\ gps_pc' = "exited"
          ELSE gps_pc' = "wait" /\ UNCHANGED exit_status
    /\ UNCHANGED <<mainVars, kill_program, signalled, faulty, digestVars, location, signVars, txVars,
                   retries, read_retries, fixes, gps_event, not_ready_run, reset_seen>>

\* A poll whose not-ready outcome also zeroes the read-retry counter.
GpsLoop_Waiting_ResetsRead ==
    /\ main_pc # "exited" /\ gps_pc = "wait"
    /\ \E ret \in BOOLEAN :
         IF ~ret
            THEN /\ gps_event' = "not_ready"
                 /\ not_ready_run' = not_ready_run + 1
                 /\ retries' = retries + 1
                 /\ read_retries' = 0
                 /\ IF WaitRetriesExceeded(retries)
                       THEN GpsLoop_Fail
                       ELSE gps_pc' = "top" /\ UNCHANGED <<kill_program, exit_status>>
            ELSE /\ gps_event' = "ready"
                 /\ not_ready_run' = 0
                 /\ retries' = 0
                 /\ gps_pc' = "read"
                 /\ UNCHANGED <<kill_program, exit_status, read_retries>>
    /\ UNCHANGED <<mainVars, signalled, faulty, digestVars, location, signVars, txVars, fixes,
                   reset_seen>>

\* Lines 428-440: gps_waiting and its two outcomes.
GpsLoop_Waiting ==
    /\ main_pc # "exited" /\ gps_pc = "wait"
    /\ \E ret \in BOOLEAN :
         IF ~ret
            THEN /\ gps_event' = "not_ready"
                 /\ not_ready_run' = not_ready_run + 1
                 /\ retries' = retries + 1
                 /\ IF WaitRetriesExceeded(retries)
                       THEN GpsLoop_Fail
                       ELSE gps_pc' = "top" /\ UNCHANGED <<kill_program, exit_status>>
            ELSE /\ gps_event' = "ready"
                 /\ not_ready_run' = 0
                 /\ retries' = 0
                 /\ gps_pc' = "read"
                 /\ UNCHANGED <<kill_program, exit_status>>
    /\ UNCHANGED <<mainVars, signalled, faulty, digestVars, location, signVars, txVars, read_retries, fixes,
                   reset_seen>>

\* process_gps_data (called at line 454; its body is in the GPS module of the
\* repository): the parsed fix is written into the Location fields of the
\* store, one field at a time, and no other part of the record is touched.
\* Two of the fields are followed: Latitude and Longitude.
ProcessGpsData(store, field, fix) == [store EXCEPT !.Location[field] = fix]

\* Lines 442-454: gps_read, then either the read-retry accounting or the call
\* of process_gps_data, up to its first write into the store.
GpsLoop_Read ==
    /\ main_pc # "exited" /\ gps_pc = "read"
    /\ \E ok \in BOOLEAN :
         /\ read_retries' = ReadRetriesAfter(ok, read_retries)
         /\ IF ~ok
               THEN /\ gps_event' = "read_fail"
                    /\ IF ReadRetriesExceeded(read_retries)
                          THEN GpsLoop_Fail
                          ELSE gps_pc' = "top" /\ UNCHANGED <<kill_program, exit_status>>
                    /\ UNCHANGED <<location, Auth, fixes, reset_seen>>
               ELSE /\ fixes < MaxFixes
                    /\ gps_event' = "read_ok"
                    /\ reset_seen' = (reset_seen \/ read_retries > 0)
                    /\ fixes' = fixes + 1
                    /\ LET uasData == ProcessGpsData([Location |-> location, Auth |-> Auth],
                                                     "Latitude", fixes + 1)
                       IN  location' = uasData.Location /\ Auth' = uasData.Auth
                    /\ gps_pc' = "update"
                    /\ UNCHANGED <<kill_program, exit_status>>
    /\ UNCHANGED <<mainVars, signalled, faulty, digestVars, ecdsa_len, ecdsa_ok, sign_pc, signature_len,
                   verification, pages, sign_i, populated, written, read_past, txVars,
                   retries, not_ready_run>>

\* Line 454: the rest of process_gps_data, and the end of the iteration.  No
\* lock is held between its writes.
GpsLoop_Process ==
    /\ main_pc # "exited" /\ gps_pc = "update"
    /\ LET uasData == ProcessGpsData([Location |-> location, Auth |-> Auth],
                                     "Longitude", fixes)
       IN  location' = uasData.Location /\ Auth' = uasData.Auth
    /\ gps_pc' = "top"
    /\ UNCHANGED <<mainVars, kill_program, signalled, faulty, digestVars, ecdsa_len, ecdsa_ok,
                   sign_pc, signature_len, verification, pages, sign_i, populated, written,
                   read_past, txVars, retries, read_retries, exit_status, fixes, gps_event,
                   not_ready_run, reset_seen>>

GpsLoopStep == GpsLoop_Top \/ GpsLoop_Waiting \/ GpsLoop_Read \/ GpsLoop_Process

\* sig_handler, for SIGINT or SIGTERM, once main has installed it.
SigHandler ==
    /\ handlers /\ main_pc # "exited"
    /\ kill_program' = TRUE
    /\ signalled' = TRUE
    /\ UNCHANGED <<mainVars, faulty, digestVars, location, signVars, txVars, gpsVars>>

(* ------------------------------------------------------------------ *)
(* parse_command_line, main, cleanup                                   *)
(* ------------------------------------------------------------------ *)

NoConfig ==
    [use_beacon |-> FALSE, use_btl |-> FALSE, use_bt4 |-> FALSE, use_bt5 |-> FALSE,
     use_packs |-> FALSE, use_gps |-> FALSE]

\* The command lines followed: each a set of option letters (argc == 1 is {}).
ArgSets ==
    { {}, {"p"}, {"l", "4"}, {"l", "5"}, {"l", "p"}, {"4", "p"},
      {"l"}, {"b"}, {"b", "p"}, {"b", "5", "p"},
      {"l", "g"}, {"b", "4", "g"}, {"b", "5", "p", "g"} }

\* Lines 365-388: the switch over the arguments.
ParseFlags(args) ==
    [use_beacon |-> "b" \in args, use_btl |-> "l" \in args, use_bt4 |-> "4" \in args,
     use_bt5 |-> "5" \in args, use_packs |-> "p" \in args, use_gps |-> "g" \in args]

\* A check of the transports that lets pack mode through with legacy or BT4.
InvalidCombination_NoPackCheck(cfg) ==
    cfg.use_btl /\ (cfg.use_bt4 \/ cfg.use_bt5)

\* Lines 394-401: the combinations parse_command_line rejects with EXIT_FAILURE.
InvalidCombination(cfg) ==
    \/ cfg.use_btl /\ (cfg.use_bt4 \/ cfg.use_bt5)
    \/ (cfg.use_btl \/ cfg.use_bt4) /\ cfg.use_packs

\* Line 407: no transport selected; help is printed and the exit code is EXIT_SUCCESS.
NoTransport(cfg) == ~cfg.use_beacon /\ ~cfg.use_btl /\ ~cfg.use_bt4 /\ ~cfg.use_bt5

AnyBluetooth(cfg) == cfg.use_btl \/ cfg.use_bt4 \/ cfg.use_bt5

\* parse_command_line (line 464).
ParseCommandLine ==
    /\ main_pc = "parse"
    /\ \E args \in ArgSets :
         LET cfg == ParseFlags(args)
         IN  /\ config' = cfg
             /\ IF args = {} THEN main_pc' = "exited" /\ exit_code' = 0
                ELSE IF InvalidCombination(cfg) THEN main_pc' = "exited" /\ exit_code' = 1
                ELSE IF NoTransport(cfg) THEN main_pc' = "exited" /\ exit_code' = 0
                ELSE main_pc' = "start_beacon" /\ UNCHANGED exit_code
    /\ UNCHANGED <<bt_open, semaphore, ap_pc, handlers, cleanup_code, gps_open,
                   kill_program, signalled, faulty, digestVars, location, signVars, txVars, gpsVars>>

\* Lines 469-471: sem_init and pthread_create of ap_interface_init.
Main_StartBeacon ==
    /\ main_pc = "start_beacon"
    /\ IF config.use_beacon
          THEN main_pc' = "sem_wait" /\ ap_pc' = "init" /\ semaphore' = 0
          ELSE main_pc' = "build" /\ UNCHANGED <<ap_pc, semaphore>>
    /\ UNCHANGED <<config, exit_code, bt_open, handlers, cleanup_code, gps_open,
                   kill_program, signalled, faulty, digestVars, location, signVars, txVars, gpsVars>>

\* ap_interface_init posts the semaphore once the beacon interface is up.
ApInterface_Ready ==
    /\ main_pc # "exited" /\ ap_pc = "init"
    /\ semaphore' = semaphore + 1
    /\ ap_pc' = "running"
    /\ UNCHANGED <<main_pc, config, exit_code, bt_open, handlers, cleanup_code, gps_open,
                   kill_program, signalled, faulty, digestVars, location, signVars, txVars, gpsVars>>

\* A main thread that goes on without waiting for the semaphore.
Main_SemWait_NoWait ==
    /\ main_pc = "sem_wait"
    /\ main_pc' = "build"
    /\ UNCHANGED <<config, exit_code, bt_open, semaphore, ap_pc, handlers, cleanup_code,
                   gps_open, kill_program, signalled, faulty, digestVars, location, signVars,
                   txVars, gpsVars>>

\* Line 472: sem_wait.
Main_SemWait ==
    /\ main_pc = "sem_wait"
    /\ semaphore > 0
    /\ semaphore' = semaphore - 1
    /\ main_pc' = "build"
    /\ UNCHANGED <<config, exit_code, bt_open, ap_pc, handlers, cleanup_code, gps_open,
                   kill_program, signalled, faulty, digestVars, location, signVars, txVars, gpsVars>>

\* Lines 475-488: odid_initUasData, fill_example_data, fill_example_gps_data
\* when GPS is off, and the key generation.
Main_BuildStore ==
    /\ main_pc = "build"
    /\ Auth' = ExampleAuth
    /\ location' = [Latitude |-> 0, Longitude |-> 0]
    /\ main_pc' = "sign"
    /\ sign_pc' = "start"
    /\ UNCHANGED <<config, exit_code, bt_open, semaphore, ap_pc, handlers, cleanup_code,
                   gps_open, kill_program, signalled, faulty, digestVars, ecdsa_len, ecdsa_ok, signature_len,
                   verification, pages, sign_i, populated, written, read_past, txVars,
                   gpsVars>>

\* sign_data (line 489), run by the main thread.
Main_SignData ==
    /\ SignDataStep
    /\ UNCHANGED <<mainVars, kill_program, signalled, faulty, digestVars, location, txVars, gpsVars>>

\* Lines 507-508: init_bluetooth, after sign_data has returned.
Main_InitBluetooth ==
    /\ main_pc = "sign" /\ sign_pc = "returned"
    /\ bt_open' = AnyBluetooth(config)
    /\ main_pc' = "mode"
    /\ UNCHANGED <<config, exit_code, semaphore, ap_pc, handlers, cleanup_code, gps_open,
                   kill_program, signalled, faulty, digestVars, location, signVars, txVars, gpsVars>>

\* Lines 510-521: with GPS, the signal handlers and init_gps, whose failure
\* calls cleanup(EXIT_FAILURE).
Main_InitGps ==
    /\ main_pc = "mode" /\ config.use_gps
    /\ handlers' = TRUE
    /\ \E ok \in BOOLEAN :
         IF ok THEN main_pc' = "spawn_gps" /\ gps_open' = TRUE /\ UNCHANGED cleanup_code
               ELSE main_pc' = "cleanup_bt" /\ cleanup_code' = 1 /\ UNCHANGED gps_open
    /\ UNCHANGED <<config, exit_code, bt_open, semaphore, ap_pc, kill_program, signalled, faulty, digestVars,
                   location, signVars, txVars, gpsVars>>

\* Lines 523-526: pthread_create of gps_loop.
Main_StartGps ==
    /\ main_pc = "spawn_gps"
    /\ gps_pc' = "top"
    /\ retries' = 0
    /\ read_retries' = 0
    /\ main_pc' = "loop"
    /\ UNCHANGED <<config, exit_code, bt_open, semaphore, ap_pc, handlers, cleanup_code,
                   gps_open, kill_program, signalled, faulty, digestVars, location, signVars, txVars,
                   exit_status, fixes, gps_event, not_ready_run, reset_seen>>

\* A loop that signs the record again before every transmission cycle.
Main_LoopTop_Resign ==
    /\ main_pc = "loop"
    /\ IF kill_program
          THEN /\ main_pc' = "cleanup_bt"
               /\ cleanup_code' = 0
               /\ UNCHANGED <<sign_pc, tx_pc, tx_step, cycles, encoded, pack_enc>>
          ELSE /\ cycles < MaxCycles
               /\ BeginTransmission
               /\ sign_pc' = "start"
               /\ UNCHANGED cleanup_code
    /\ UNCHANGED <<config, exit_code, bt_open, semaphore, ap_pc, handlers, gps_open,
                   kill_program, signalled, faulty, digestVars, location, ecdsa_len, ecdsa_ok, signature_len,
                   verification, pages, sign_i, Auth, populated, written, read_past,
                   msg_counters, last_enc_ok, last_tx, n_dispatched, gpsVars>>

\* Lines 528-537: the top of the GPS-mode loop: break on kill_program, else
\* one more call of a send function.
Main_LoopTop ==
    /\ main_pc = "loop"
    /\ IF kill_program
          THEN /\ main_pc' = "cleanup_bt"
               /\ cleanup_code' = 0
               /\ UNCHANGED <<tx_pc, tx_step, cycles, encoded, pack_enc>>
          ELSE /\ cycles < MaxCycles
               /\ BeginTransmission
               /\ UNCHANGED cleanup_code
    /\ UNCHANGED <<config, exit_code, bt_open, semaphore, ap_pc, handlers, gps_open,
                   kill_program, signalled, faulty, digestVars, location, signVars, msg_counters, last_enc_ok,
                   last_tx, n_dispatched, gpsVars>>

\* Lines 539-544: without GPS, one call of a send function.
Main_TransmitOnce ==
    /\ main_pc = "mode" /\ ~config.use_gps
    /\ BeginTransmission
    /\ UNCHANGED <<config, exit_code, bt_open, semaphore, ap_pc, handlers, cleanup_code,
                   gps_open, kill_program, signalled, faulty, digestVars, location, signVars, msg_counters,
                   last_enc_ok, last_tx, n_dispatched, gpsVars>>

Main_Transmit ==
    /\ TransmitStep

\* Lines 205-206 of cleanup: close_bluetooth.
Cleanup_Bluetooth ==
    /\ main_pc = "cleanup_bt"
    /\ bt_open' = (IF AnyBluetooth(config) THEN FALSE ELSE bt_open)
    /\ main_pc' = "cleanup_beacon"
    /\ UNCHANGED <<config, exit_code, semaphore, ap_pc, handlers, cleanup_code, gps_open,
                   kill_program, signalled, faulty, digestVars, location, signVars, txVars, gpsVars>>

\* Lines 208-216 of cleanup: send_quit and the join of the beacon-interface thread.
Cleanup_Beacon ==
    /\ main_pc = "cleanup_beacon"
    /\ ap_pc' = (IF config.use_beacon THEN "joined" ELSE ap_pc)
    /\ main_pc' = "cleanup_gps"
    /\ UNCHANGED <<config, exit_code, bt_open, semaphore, handlers, cleanup_code, gps_open,
                   kill_program, signalled, faulty, digestVars, location, signVars, txVars, gpsVars>>

\* Lines 218-224 of cleanup: pthread_join of the GPS thread, which blocks until
\* gps_loop has exited, then gps_close.  Joining a thread that was never
\* created is undefined: the call may return or the process may crash.
Cleanup_Gps ==
    /\ main_pc = "cleanup_gps"
    /\ IF ~config.use_gps
          THEN main_pc' = "cleanup_exit" /\ UNCHANGED <<gps_pc, gps_open, exit_code>>
          ELSE IF gps_pc = "none"
          THEN \/ main_pc' = "cleanup_exit" /\ UNCHANGED <<gps_pc, gps_open, exit_code>>
               \/ main_pc' = "exited" /\ exit_code' = 139 /\ UNCHANGED <<gps_pc, gps_open>>
          ELSE /\ gps_pc = "exited"
               /\ gps_pc' = "joined"
               /\ gps_open' = FALSE
               /\ main_pc' = "cleanup_exit"
               /\ UNCHANGED exit_code
    /\ UNCHANGED <<config, bt_open, semaphore, ap_pc, handlers, cleanup_code,
                   kill_program, signalled, faulty, digestVars, location, signVars, txVars, retries,
                   read_retries, exit_status, fixes, gps_event, not_ready_run, reset_seen>>

\* Line 226 of cleanup: exit(exit_code).
Cleanup_Exit ==
    /\ main_pc = "cleanup_exit"
    /\ exit_code' = cleanup_code
    /\ main_pc' = "exited"
    /\ UNCHANGED <<config, bt_open, semaphore, ap_pc, handlers, cleanup_code, gps_open,
                   kill_program, signalled, faulty, digestVars, location, signVars, txVars, gpsVars>>

CleanupStep == Cleanup_Bluetooth \/ Cleanup_Beacon \/ Cleanup_Gps \/ Cleanup_Exit

(* ------------------------------------------------------------------ *)
(* The digest of sign_data: hash_basic_id, hash_location, hash_system   *)
(* ------------------------------------------------------------------ *)

\* The float and double fields are held in fixed point: Unit is 1.0.
Unit == 10000

\* The record after odid_initUasData, fill_example_data and
\* fill_example_gps_data (strncpy keeps of each string what fits its field).
\* fill_example_data reads Location.Latitude and
\* Longitude before fill_example_gps_data has set them, when they are still 0.
ExampleRecord ==
    [BasicID |-> << [UAType |-> "HELICOPTER_OR_MULTIROTOR", IDType |-> "SERIAL_NUMBER",
                     UASID |-> "112624150A90E3AE1EC0"],
                    [UAType |-> "HELICOPTER_OR_MULTIROTOR", IDType |-> "SPECIFIC_SESSION_ID",
                     UASID |-> "FD3454B778E565C24B70"] >>,
     Location |-> [Status |-> "AIRBORNE", Direction |-> 361 * Unit, SpeedHorizontal |-> 0,
                   SpeedVertical |-> 3500, Latitude |-> 514791, Longitude |-> -13,
                   AltitudeBaro |-> 100 * Unit, AltitudeGeo |-> 110 * Unit,
                   HeightType |-> "OVER_GROUND", Height |-> 80 * Unit,
                   HorizAccuracy |-> 55000, VertAccuracy |-> 95000, BaroAccuracy |-> 5000,
                   SpeedAccuracy |-> 5000, TSAccuracy |-> 1000, TimeStamp |-> 3605200],
     Auth |-> ExampleAuth,
     SelfID |-> [DescType |-> "TEXT", Desc |-> "This is a test of a spoofed drone id"],
     System |-> [OperatorLocationType |-> "TAKEOFF", ClassificationType |-> "EU",
                 OperatorLatitude |-> 10, OperatorLongitude |-> -10,
                 AreaCount |-> 1, AreaRadius |-> 0, AreaCeiling |-> 0, AreaFloor |-> 0,
                 CategoryEU |-> "OPEN", ClassEU |-> "CLASS_1",
                 OperatorAltitudeGeo |-> 205000, Timestamp |-> 28056789],
     OperatorID |-> [OperatorIdType |-> "OPERATOR_ID", OperatorId |-> "Not Real"]]

\* The records the digest is followed over: the example record and records that
\* differ from it in one field.
Records ==
    { ExampleRecord,
      [ExampleRecord EXCEPT !.BasicID[1].UAType = "AEROPLANE"],
      [ExampleRecord EXCEPT !.BasicID[2].IDType = "CAA_REGISTRATION_ID"],
      [ExampleRecord EXCEPT !.Location.Status = "GROUND"],
      [ExampleRecord EXCEPT !.Location.HeightType = "OVER_TAKEOFF"],
      [ExampleRecord EXCEPT !.Location.HorizAccuracy = 10000],
      [ExampleRecord EXCEPT !.System.ClassificationType = "UNDECLARED"],
      [ExampleRecord EXCEPT !.System.AreaCount = 2],
      [ExampleRecord EXCEPT !.System.AreaRadius = 100],
      [ExampleRecord EXCEPT !.System.AreaCeiling = 120 * Unit],
      [ExampleRecord EXCEPT !.System.AreaFloor = 15 * Unit],
      [ExampleRecord EXCEPT !.Auth = InitialAuth],
      [ExampleRecord EXCEPT !.SelfID.DescType = "EMERGENCY"],
      [ExampleRecord EXCEPT !.OperatorID.OperatorIdType = "PRIVATE"],
      [ExampleRecord EXCEPT !.Location.Latitude = 519999],
      [ExampleRecord EXCEPT !.Location.Longitude = 9999],
      [ExampleRecord EXCEPT !.Location.SpeedVertical = 9000],
      [ExampleRecord EXCEPT !.Location.TimeStamp = 3600001],
      [ExampleRecord EXCEPT !.System.OperatorAltitudeGeo = 200000],
      [ExampleRecord EXCEPT !.Location.Latitude = 524791],
      [ExampleRecord EXCEPT !.Location.Longitude = -10013],
      [ExampleRecord EXCEPT !.Location.Direction = 90 * Unit],
      [ExampleRecord EXCEPT !.Location.TimeStamp = 3615200],
      [ExampleRecord EXCEPT !.System.OperatorLatitude = 10010],
      [ExampleRecord EXCEPT !.System.Timestamp = 28056790],
      [ExampleRecord EXCEPT !.BasicID[1].UASID = "112624150A90E3AE1EC1"],
      [ExampleRecord EXCEPT !.SelfID.Desc = "Another description"],
      [ExampleRecord EXCEPT !.OperatorID.OperatorId = "Real"] }

\* (int) of a float or double: the fraction is dropped, towards zero.
IntCast(x) == IF x >= 0 THEN x \div Unit ELSE -((-x) \div Unit)

\* SHA256_Update: the bytes are appended to what the context has absorbed.
\* The digest is a function of the absorbed sequence, which stands for it.
SHA256_Update(sha256, data) == Append(sha256, data)

\* Lines 51-53.
hash_basic_id(BasicID, sha256) == SHA256_Update(sha256, BasicID.UASID)

RECURSIVE UpdateAll(_, _)
\* A run of SHA256_Update calls, one per element, in order.
UpdateAll(sha256, seq) ==
    IF seq = << >> THEN sha256 ELSE UpdateAll(SHA256_Update(sha256, Head(seq)), Tail(seq))

\* Lines 55-74.
hash_location(loc, sha256) ==
    UpdateAll(sha256,
              << IntCast(loc.Direction), IntCast(loc.SpeedHorizontal),
                 IntCast(loc.SpeedVertical), IntCast(loc.Latitude), IntCast(loc.Longitude),
                 IntCast(loc.AltitudeBaro), IntCast(loc.AltitudeGeo), IntCast(loc.Height),
                 IntCast(loc.TimeStamp) >>)

\* A hash_system that also absorbs the two area altitudes it casts.
hash_system_WithArea(system, sha256) ==
    UpdateAll(sha256,
              << IntCast(system.OperatorLatitude), IntCast(system.OperatorLongitude),
                 IntCast(system.AreaCeiling), IntCast(system.AreaFloor),
                 IntCast(system.OperatorAltitudeGeo), system.Timestamp >>)

\* Lines 76-86.  AreaCeiling and AreaFloor are cast but not absorbed.
hash_system(system, sha256) ==
    UpdateAll(sha256,
              << IntCast(system.OperatorLatitude), IntCast(system.OperatorLongitude),
                 IntCast(system.OperatorAltitudeGeo), system.Timestamp >>)

\* Lines 89-98 of sign_data: what SHA256_Final digests for a record.
Digest(uasData) ==
    LET h1 == hash_basic_id(uasData.BasicID[1], << >>)
        h2 == hash_basic_id(uasData.BasicID[2], h1)
        h3 == hash_location(uasData.Location, h2)
        h4 == SHA256_Update(h3, uasData.SelfID.Desc)
        h5 == hash_system(uasData.System, h4)
    IN  SHA256_Update(h5, uasData.OperatorID.OperatorId)

\* The digest variables outside the runs that follow the digest.
DigestIdle ==
    /\ uasA = ExampleRecord
    /\ uasB = ExampleRecord
    /\ hashA = << >>
    /\ hashB = << >>
    /\ hash_pc = "idle"

\* The digest part of sign_data, run on each of the two records.
HashRecords ==
    /\ main_pc = "sign" /\ sign_pc = "start" /\ hash_pc = "idle"
    /\ hashA' = Digest(uasA)
    /\ hashB' = Digest(uasB)
    /\ hash_pc' = "done"
    /\ UNCHANGED <<mainVars, kill_program, signalled, faulty, uasA, uasB, location, signVars,
                   txVars, gpsVars>>

(* ------------------------------------------------------------------ *)
(* The program                                                         *)
(* ------------------------------------------------------------------ *)

\* The signature length followed in the whole program: the most frequent one,
\* 71 bytes (SpecSign follows every length).
SigLens == {MaxSigLen - 1}

\* Everything but the main thread's position, the store's pages and the inputs
\* of the signer, at the start of main.
InitRest ==
    /\ config = NoConfig
    /\ exit_code = -1
    /\ kill_program = FALSE
    /\ signalled = FALSE
    /\ location = [Latitude |-> 0, Longitude |-> 0]
    /\ signature_len = 0
    /\ verification = FALSE
    /\ pages = 0
    /\ sign_i = 0
    /\ populated = [p \in PageIndex |-> 0]
    /\ written = {}
    /\ read_past = FALSE
    /\ msg_counters = [c \in CounterNames |-> 0]
    /\ tx_pc = "idle"
    /\ tx_step = 0
    /\ cycles = 0
    /\ encoded = ZeroEncoded
    /\ pack_enc = ZeroPack
    /\ last_enc_ok = TRUE
    /\ last_tx = << >>
    /\ n_dispatched = 0
    /\ bt_open = FALSE
    /\ semaphore = 0
    /\ ap_pc = "none"
    /\ handlers = FALSE
    /\ cleanup_code = 0
    /\ gps_open = FALSE
    /\ gps_pc = "none"
    /\ retries = 0
    /\ read_retries = 0
    /\ exit_status = -1
    /\ fixes = 0
    /\ gps_event = "none"
    /\ not_ready_run = 0
    /\ reset_seen = FALSE

Init ==
    /\ main_pc = "parse"
    /\ sign_pc = "idle"
    /\ Auth = InitialAuth
    /\ ecdsa_len \in SigLens
    /\ ecdsa_ok \in BOOLEAN
    /\ faulty = {}
    /\ DigestIdle
    /\ InitRest

Next ==
    \/ ParseCommandLine
    \/ Main_StartBeacon
    \/ ApInterface_Ready
    \/ Main_SemWait
    \/ Main_BuildStore
    \/ Main_SignData
    \/ Main_InitBluetooth
    \/ Main_InitGps
    \/ Main_StartGps
    \/ Main_LoopTop
    \/ Main_TransmitOnce
    \/ Main_Transmit
    \/ CleanupStep
    \/ GpsLoopStep
    \/ SigHandler

Spec == Init /\ [][Next]_vars

\* The transports that fail, in the runs that follow transport errors.
FaultSets == { {"beacon"}, {"bt_ext"}, {"btl", "bt_ext", "bt5", "beacon"} }

\* The same program with send primitives that report errors: a faulty
\* transport fails on every call.
InitFault ==
    /\ main_pc = "parse"
    /\ sign_pc = "idle"
    /\ Auth = InitialAuth
    /\ ecdsa_len \in SigLens
    /\ ecdsa_ok = TRUE
    /\ faulty \in FaultSets
    /\ DigestIdle
    /\ InitRest

SpecFault == InitFault /\ [][Next]_vars

(* ------------------------------------------------------------------ *)
(* The signer alone, over every signature length                       *)
(* ------------------------------------------------------------------ *)

\* main has reached the call of sign_data (line 489): the store holds the example data.
InitSign ==
    /\ main_pc = "sign"
    /\ sign_pc = "start"
    /\ Auth = ExampleAuth
    /\ ecdsa_len \in MinSigLen .. MaxSigLen
    /\ ecdsa_ok \in BOOLEAN
    /\ faulty = {}
    /\ DigestIdle
    /\ InitRest

NextSign == Main_SignData

SpecSign == InitSign /\ [][NextSign]_vars

\* The digest alone, over pairs of records.
InitDigest ==
    /\ main_pc = "sign"
    /\ sign_pc = "start"
    /\ Auth = ExampleAuth
    /\ ecdsa_len \in SigLens
    /\ ecdsa_ok = TRUE
    /\ faulty = {}
    /\ uasA \in Records
    /\ uasB \in Records
    /\ hashA = << >>
    /\ hashB = << >>
    /\ hash_pc = "idle"
    /\ InitRest

NextDigest == HashRecords

SpecDigest == InitDigest /\ [][NextDigest]_vars

\* The steps of the main thread.
MainStep ==
    \/ ParseCommandLine \/ Main_StartBeacon \/ Main_SemWait \/ Main_BuildStore
    \/ Main_SignData \/ Main_InitBluetooth \/ Main_InitGps \/ Main_StartGps
    \/ Main_LoopTop \/ Main_TransmitOnce \/ Main_Transmit \/ CleanupStep

\* The program with threads that keep running: every call of a transport, of
\* the GPS client and of the beacon interface returns, and the scheduler lets
\* each thread that can take a step take one.
Fairness ==
    /\ WF_vars(MainStep)
    /\ WF_vars(GpsLoopStep)
    /\ WF_vars(ApInterface_Ready)

\* The runs followed for progress: the result of ECDSA_verify is only printed
\* (line 105) and plays no part in what the threads do next.
InitLive == Init /\ ecdsa_ok

SpecLive == InitLive /\ [][Next]_vars /\ Fairness

(* ------------------------------------------------------------------ *)
(* Properties of the fragmentation                                     *)
(* ------------------------------------------------------------------ *)

\* The signature ECDSA_sign produced, as a sequence of signature_len bytes.
Signature == [k \in 1 .. signature_len |-> SigByte(k - 1)]

\* The payload capacity of a page after page 0: AuthData holds one byte more,
\* kept for a terminating NUL.
PageCapacity == AuthDataSize - 1

RECURSIVE PagePayloads(_)
\* The populated bytes of pages p, p+1, ... in page order.
PagePayloads(p) ==
    IF p >= ODID_AUTH_MAX_PAGES THEN <<>>
    ELSE SubSeq(Auth[p].AuthData, 1, populated[p]) \o PagePayloads(p + 1)

\* What a receiver reassembles: pages[0][0:K], then each later page's populated bytes.
Reassembled ==
    SubSeq(Auth[0].AuthData, 1, MINIMUM(ZeroPageReserve, signature_len)) \o PagePayloads(1)

CeilDiv(a, b) == IF a <= 0 THEN 0 ELSE (a + b - 1) \div b

\* The bytes of the signature from the loop's source offset for page p on.
RemainingAt(p) ==
    IF signature_len > CopyOffset(p) THEN signature_len - CopyOffset(p) ELSE 0

\* The longest signature that fits page 0's reserve and the later sent pages.
PageBudgetBytes == ZeroPageReserve + (SentAuthPages - 1) * PageCapacity

SignReturned == sign_pc = "returned"

\* C1: fragmentation round-trip. After sign_data has filled the pages, the first
\* K bytes of page 0 followed by each page's populated bytes in page order are
\* exactly the signature_len bytes of the signature.
C1_RoundTrip == SignReturned => Reassembled = Signature

\* C2: after sign_data, page 0's LastPageIndex is the number of pages populated
\* minus one, which is ceil((L - K) / C).
C2_LastPageIndex ==
    SignReturned =>
        /\ Auth[0].LastPageIndex = Cardinality(written) - 1
        /\ Auth[0].LastPageIndex = CeilDiv(signature_len - ZeroPageReserve, PageCapacity)

\* C3: page count bound. A signature longer than the page budget holds (63 bytes
\* for 3 pages) never lets sign_data return normally, and no page outside the
\* budget is written.
C3_PageCountBound ==
    signature_len > PageBudgetBytes /\ sign_pc \in {"loop", "returned"} =>
        /\ sign_pc # "returned"
        /\ written \subseteq 0 .. (SentAuthPages - 1)

\* C4: every page the loop writes receives the remaining bytes capped at the
\* page capacity, no copy reads past byte L of the signature, and a signature
\* shorter than K yields exactly one page.
C4_CopyLength ==
    sign_pc \in {"loop", "returned"} =>
        /\ ~read_past
        /\ \A p \in written : populated[p] = MINIMUM(RemainingAt(p), AuthDataSize)
        /\ (SignReturned /\ signature_len < ZeroPageReserve => Cardinality(written) = 1)

(* ------------------------------------------------------------------ *)
(* Properties of the transmission                                      *)
(* ------------------------------------------------------------------ *)

\* A step of the main thread that encodes (or has encoded) and sends.
SendStep == SendSingleMessage \/ SendPack

\* C5: if the signature fails its verification right after signing, no message
\* or pack is ever dispatched to a transport.
C5_NoDispatchAfterFailedVerify ==
    sign_pc = "returned" /\ ~verification => n_dispatched = 0

\* C6: counter monotonicity. A send step whose encoding succeeded advances the
\* counters by one (mod 256) per send, and a send step whose encoding failed
\* leaves every counter unchanged.
C6_CounterMonotonic ==
    [][SendStep =>
         IF last_enc_ok'
            THEN \A c \in CounterNames :
                    \/ msg_counters'[c] = msg_counters[c]
                    \/ msg_counters'[c] = CounterIncrement(msg_counters[c])
                    \/ /\ tx_pc = "pack_send"
                       /\ msg_counters'[c] = IncrementTimes(msg_counters[c], Len(last_tx'))
            ELSE msg_counters' = msg_counters]_vars

\* C7: when the encoder reports an error for a message, or for a pack or one of
\* its messages, that message or pack is skipped: the step dispatches nothing.
C7_FailedEncodingSkipped ==
    [][SendStep /\ ~last_enc_ok' => n_dispatched' = n_dispatched /\ last_tx' = last_tx]_vars

(* ------------------------------------------------------------------ *)
(* Properties of gps_loop                                              *)
(* ------------------------------------------------------------------ *)

GpsTerminated == gps_pc \in {"exited", "joined"}

\* C8: GPS retry escalation. gps_loop ends with failure status and the shutdown
\* flag set on exactly the (MAX_GPS_WAIT_RETRIES + 1)-th consecutive not-ready
\* poll: not before, and not later.
C8_WaitEscalation ==
    /\ (GpsTerminated /\ exit_status = 1 /\ gps_event = "not_ready"
            => not_ready_run = MAX_GPS_WAIT_RETRIES + 1)
    /\ (not_ready_run >= MAX_GPS_WAIT_RETRIES + 1
            => GpsTerminated /\ exit_status = 1 /\ kill_program)

\* C9: right after every successful read, the wait-retry counter and the
\* read-retry counter are both zero.
C9_ResetAfterRead ==
    gps_event = "read_ok" => retries = 0 /\ read_retries = 0

\* A successful read that followed a failed one.
C9_Witness == gps_event = "read_ok" /\ reset_seen /\ fixes > 0

\* C10: gps_loop reports 1 exactly when a retry budget was exceeded, and then
\* the shutdown flag is set before it exits; it reports 0 exactly when it left
\* the loop on a shutdown flag that the signal handler had set.
C10_ExitStatus ==
    GpsTerminated =>
        /\ exit_status \in {0, 1}
        /\ (exit_status = 1 <=> (\/ retries > MAX_GPS_WAIT_RETRIES + 1
                                 \/ read_retries > MAX_GPS_READ_RETRIES + 1))
        /\ (exit_status = 1 => kill_program)
        /\ (exit_status = 0 => signalled /\ kill_program)

\* gps_loop has ended on an exceeded budget with no signal received.
C10_Witness ==
    GpsTerminated /\ exit_status = 1 /\ kill_program /\ ~signalled

(* ------------------------------------------------------------------ *)
(* Properties of the process: exit code, configuration, shutdown       *)
(* ------------------------------------------------------------------ *)

ProcessExited == main_pc = "exited"

\* C11: when the GPS task ends on an exceeded retry budget (it reports 1), the
\* process ends with a non-zero exit code; the exit code is 0 only when no
\* component reported a failure.
C11_ExitCodeReflectsFailure ==
    ProcessExited /\ exit_status = 1 => exit_code # 0

\* The order the claim gives to the messages of a pack.
PackOrder ==
    << "BasicID0", "BasicID1", "Location", "Auth0", "Auth1", "Auth2",
       "SelfID", "System", "OperatorID" >>

\* The message names of a pack payload, in slot order.
PackNames(pack) == [k \in 1 .. Len(pack.Messages) |-> pack.Messages[k].msg]

\* C15: every pack handed to a transport holds exactly the 9 messages basic-id
\* 0, basic-id 1, location, auth pages 0, 1, 2, self-id, system, operator-id,
\* in this order.
C15_PackOrder ==
    tx_pc = "pack_send" \/ (config.use_packs /\ n_dispatched > 0) =>
        \A k \in 1 .. Len(last_tx) : PackNames(last_tx[k].payload) = PackOrder

\* The configurations the claim names as invalid: legacy Bluetooth together
\* with BT4-extended or BT5, or legacy/BT4 together with pack mode.
ClaimedInvalid ==
    \/ config.use_btl /\ config.use_bt4
    \/ config.use_btl /\ config.use_bt5
    \/ config.use_btl /\ config.use_packs
    \/ config.use_bt4 /\ config.use_packs

\* No core component has started: no beacon-interface task, no store built or
\* signed, no Bluetooth, no GPS task, no transmission.
NothingStarted ==
    /\ ap_pc = "none"
    /\ sign_pc = "idle"
    /\ Auth = InitialAuth
    /\ ~bt_open
    /\ ~handlers
    /\ ~gps_open
    /\ gps_pc = "none"
    /\ cycles = 0
    /\ n_dispatched = 0

\* C16: an invalid configuration makes the process exit non-zero before any
\* core component starts; singles mode with Beacon is accepted and, without
\* GPS, the run ends with exit code 0 after transmitting every single message.
C16_ConfigValidation ==
    /\ (ClaimedInvalid => ProcessExited /\ exit_code = 1 /\ NothingStarted)
    /\ (ProcessExited /\ config.use_beacon /\ ~config.use_packs /\ ~ClaimedInvalid
          /\ ~config.use_gps
            => exit_code = 0 /\ n_dispatched >= Len(SingleMessages))

\* An invalid configuration (BT4 with packs) has been rejected.
C16_Witness ==
    ProcessExited /\ config.use_bt4 /\ config.use_packs /\ exit_code = 1

\* A step of sign_data after which some page of the signature is still unfilled.
PagesStillUnfilled == sign_pc' = "loop" /\ sign_i' < pages'

\* C18: page 0's Length and LastPageIndex are written only after all pages
\* have been filled: no step that leaves a page unfilled writes either field.
C18_PageZeroFieldsLast ==
    [][main_pc = "sign" /\ PagesStillUnfilled =>
         /\ Auth'[0].Length = Auth[0].Length
         /\ Auth'[0].LastPageIndex = Auth[0].LastPageIndex]_vars

\* cleanup has closed a transport handle: the Bluetooth device, or the beacon
\* interface (send_quit and the join of its thread).
TransportClosed ==
    \/ AnyBluetooth(config) /\ main_pc \in {"cleanup_beacon", "cleanup_gps", "cleanup_exit"}
    \/ ap_pc = "joined"

\* C20: shutdown ordering. cleanup first joins the GPS task, then closes the
\* transport handles: no handle is closed while the GPS task is still running.
C20_JoinBeforeClose ==
    TransportClosed /\ gps_pc # "none" => gps_pc = "joined"

\* C12: the record is signed exactly once, before the first transmission:
\* nothing is dispatched before sign_data has returned, sign_data never runs
\* again, and from the first dispatch onward no step of the orchestrator or of
\* the GPS task changes an authentication page.
C12_SignedOnce ==
    [][/\ (n_dispatched' > n_dispatched => sign_pc = "returned")
       /\ (sign_pc = "returned" => sign_pc' = "returned")
       /\ (n_dispatched > 0 => Auth' = Auth)]_vars

\* A location update of the GPS task has been followed by a second
\* transmission cycle that ran to its end.
C12_Witness ==
    /\ sign_pc = "returned"
    /\ fixes > 0
    /\ cycles = MaxCycles
    /\ main_pc = "loop"
    /\ n_dispatched > Len(SingleMessages)

\* A step of gps_loop in which gps_read failed.
ReadFailureStep == gps_pc = "read" /\ gps_event' = "read_fail"

\* C19: a read failure increments only the read-retry counter, and once the
\* read failures with no successful read in between exceed
\* MAX_GPS_READ_RETRIES, gps_loop ends with failure status and sets the
\* shutdown flag, as it does for wait retries.
C19_ReadEscalation ==
    [][ReadFailureStep =>
         /\ read_retries' = read_retries + 1
         /\ retries' = retries
         /\ (read_retries' > MAX_GPS_READ_RETRIES
               => gps_pc' = "exited" /\ exit_status' = 1 /\ kill_program')]_vars

(* ------------------------------------------------------------------ *)
(* Properties of the transports                                        *)
(* ------------------------------------------------------------------ *)

\* The transports a dispatch goes to under the configuration: send_message
\* serves legacy, the extended API (BT4 or BT5) and beacon; send_packs serves
\* beacon and BT5.
EnabledTransports(cfg) ==
    IF cfg.use_packs
       THEN {t \in {"beacon", "bt5"} :
               (t = "beacon" /\ cfg.use_beacon) \/ (t = "bt5" /\ cfg.use_bt5)}
       ELSE {t \in {"btl", "bt_ext", "beacon"} :
               \/ t = "btl" /\ cfg.use_btl
               \/ t = "bt_ext" /\ (cfg.use_bt4 \/ cfg.use_bt5)
               \/ t = "beacon" /\ cfg.use_beacon}

\* The number of dispatches of one transmission cycle.
CycleLength == IF config.use_packs THEN PackRepeats ELSE Len(SingleMessages)

\* C14: transport independence. Every dispatch invokes the send primitive of
\* every enabled transport, whether or not the send on another transport
\* failed, and a failed send does not keep the remaining messages of the cycle
\* from being dispatched.
C14_TransportIndependence ==
    [][SendStep =>
         /\ {last_tx'[k].transport : k \in 1 .. Len(last_tx')} = EnabledTransports(config)
         /\ n_dispatched' = n_dispatched + Cardinality(EnabledTransports(config))
         /\ IF tx_step + 1 < CycleLength
               THEN tx_step' = tx_step + 1 /\ tx_pc' = tx_pc
               ELSE tx_pc' = "idle"]_vars

\* A cycle has run to its end although, in each of its dispatches, the first
\* transport failed; the transport after it was still invoked.
C14_Witness ==
    /\ tx_pc = "idle" /\ cycles > 0
    /\ Len(last_tx) > 1
    /\ last_tx[1].result = "error"
    /\ last_tx[2].transport # last_tx[1].transport

(* ------------------------------------------------------------------ *)
(* Shutdown                                                            *)
(* ------------------------------------------------------------------ *)

\* The GPS thread has been created and the shutdown flag is set.
ShutdownRequested == kill_program /\ config.use_gps /\ gps_pc # "none"

\* C13: cooperative shutdown in GPS mode. Once kill_program is set, the
\* transmission loop finishes the cycle it is in and starts no further one,
\* gps_loop starts no further iteration, and the process eventually joins the
\* GPS thread and exits.
C13_CooperativeShutdown ==
    /\ [][kill_program =>
            /\ cycles' = cycles
            /\ (main_pc = "tx" => main_pc' \in {"tx", "loop"})
            /\ (gps_pc = "top" => gps_pc' # "wait")]_vars
    /\ (ShutdownRequested ~> (main_pc = "exited" /\ gps_pc = "joined"))

\* A signal arrived in the middle of a transmission cycle, and the process
\* has ended with the GPS thread joined after exactly that cycle.
C13_Witness ==
    /\ main_pc = "exited"
    /\ gps_pc = "joined"
    /\ signalled
    /\ exit_status = 0
    /\ cycles = 1
    /\ n_dispatched > 0

(* ------------------------------------------------------------------ *)
(* Properties of the digest                                            *)
(* ------------------------------------------------------------------ *)

\* The numeric fields the digest covers after truncation.
TruncatedLocationFields ==
    {"Direction", "SpeedHorizontal", "SpeedVertical", "Latitude", "Longitude",
     "AltitudeBaro", "AltitudeGeo", "Height", "TimeStamp"}

TruncatedSystemFields == {"OperatorLatitude", "OperatorLongitude", "OperatorAltitudeGeo"}

\* The whole parts the fields of the records lie between.
MaxWhole == 400

\* x and y differ at most in their fractional part.
SameWholePart(x, y) ==
    \E n \in -MaxWhole .. MaxWhole :
        /\ (n > 0 => x \in n * Unit .. n * Unit + (Unit - 1))
        /\ (n > 0 => y \in n * Unit .. n * Unit + (Unit - 1))
        /\ (n < 0 => x \in n * Unit - (Unit - 1) .. n * Unit)
        /\ (n < 0 => y \in n * Unit - (Unit - 1) .. n * Unit)
        /\ (n = 0 => x \in -(Unit - 1) .. Unit - 1)
        /\ (n = 0 => y \in -(Unit - 1) .. Unit - 1)

\* Two records that differ only in fields excluded from the digest: every
\* covered field agrees, the truncated ones up to their fractional part.
DifferOnlyInExcluded(a, b) ==
    /\ a.BasicID[1].UASID = b.BasicID[1].UASID
    /\ a.BasicID[2].UASID = b.BasicID[2].UASID
    /\ \A f \in TruncatedLocationFields : SameWholePart(a.Location[f], b.Location[f])
    /\ a.SelfID.Desc = b.SelfID.Desc
    /\ \A f \in TruncatedSystemFields : SameWholePart(a.System[f], b.System[f])
    /\ a.System.Timestamp = b.System.Timestamp
    /\ a.OperatorID.OperatorId = b.OperatorID.OperatorId

\* C17: digest determinism. Two records that differ only in fields excluded
\* from the digest (type tags, status and accuracy enums, the area fields, the
\* authentication pages, the fractional part of a truncated field) have the
\* same digest.
C17_DigestDeterminism ==
    hash_pc = "done" /\ DifferOnlyInExcluded(uasA, uasB) => hashA = hashB

\* Two records with different area ceilings and latitudes that differ in their
\* fraction have been digested.
C17_Witness ==
    /\ hash_pc = "done"
    /\ uasA.System.AreaCeiling # uasB.System.AreaCeiling
    /\ uasA.Location.Latitude # uasB.Location.Latitude
    /\ DifferOnlyInExcluded(uasA, uasB)

(* ------------------------------------------------------------------ *)
(* Startup                                                             *)
(* ------------------------------------------------------------------ *)

\* The beacon-interface thread has posted the semaphore and main has taken it.
RendezvousDone == ap_pc \in {"running", "joined"} /\ semaphore = 0

\* main is past the call of sign_data.
PastSigning ==
    main_pc \in {"mode", "spawn_gps", "loop", "tx", "cleanup_bt", "cleanup_beacon",
                 "cleanup_gps", "cleanup_exit"}

\* C21: startup ordering. With Beacon, the readiness rendezvous is complete
\* before the store is built and signed; signing is complete before Bluetooth
\* is initialised; with GPS, the GPS task is started before the first
\* transmission cycle; and nothing is transmitted before every enabled
\* transport is initialised.
C21_StartupOrder ==
    /\ [](/\ (config.use_beacon /\ sign_pc # "idle" => RendezvousDone)
          /\ (bt_open \/ PastSigning => sign_pc = "returned")
          /\ (config.use_gps /\ cycles > 0 => gps_pc # "none"))
    /\ [][cycles' > cycles \/ n_dispatched' > n_dispatched =>
            /\ (AnyBluetooth(config) => bt_open)
            /\ (config.use_beacon => ap_pc = "running")
            /\ (config.use_gps => gps_pc # "none")]_vars

\* A run with Beacon, Bluetooth and GPS has dispatched messages.
C21_Witness ==
    /\ config.use_beacon /\ AnyBluetooth(config) /\ config.use_gps
    /\ n_dispatched > 0
    /\ bt_open /\ ap_pc = "running"

(* ------------------------------------------------------------------ *)
(* Properties of a transmission cycle                                  *)
(* ------------------------------------------------------------------ *)

\* The name of the single message that carries authentication page p.
AuthMessage(p) ==
    IF p = 0 THEN "Auth0" ELSE IF p = 1 THEN "Auth1" ELSE IF p = 2 THEN "Auth2"
    ELSE IF p = 3 THEN "Auth3" ELSE "AuthN"

\* The position of message m in the order of send_single_messages (0: none).
PositionOf(m) ==
    IF \E k \in 1 .. Len(SingleMessages) : SingleMessages[k].msg = m
       THEN CHOOSE k \in 1 .. Len(SingleMessages) : SingleMessages[k].msg = m
       ELSE 0

\* C22: in singles mode every authentication page the signer populated, pages
\* 0 through page 0's LastPageIndex, is encoded and sent in each cycle between
\* the location message and the self-id message, with the AUTH counter: when
\* the self-id message is sent, each of these pages has been sent after the
\* location message.
C22_AllAuthPagesSent ==
    [][SendSingleMessage /\ SingleMessages[tx_step + 1].msg = "SelfID" =>
         \A p \in 0 .. Auth[0].LastPageIndex :
             /\ PositionOf(AuthMessage(p)) > PositionOf("Location")
             /\ PositionOf(AuthMessage(p)) <= tx_step
             /\ SingleMessages[PositionOf(AuthMessage(p))].ctr = "AUTH"]_vars

\* C23: for each message or pack dispatched, every enabled transport receives
\* the same counter value and the counter of that message type advances
\* exactly once, in singles mode and in packs mode.
C23_OneCounterPerDispatch ==
    [][SendStep =>
         /\ \A j, k \in 1 .. Len(last_tx') : last_tx'[j].counter = last_tx'[k].counter
         /\ \E c \in CounterNames :
               msg_counters' = [msg_counters EXCEPT ![c] = CounterIncrement(@)]]_vars

(* ------------------------------------------------------------------ *)
(* The store shared by the two threads                                 *)
(* ------------------------------------------------------------------ *)

\* A step of the main thread that encodes the location message from the store.
EncodesLocation ==
    \/ SendSingleMessage /\ SingleMessages[tx_step + 1].msg = "Location"
    \/ CreateMessagePack

\* The GPS task has written part of a fix into the store, not yet all of it.
MidLocationUpdate == gps_pc = "update"

\* C24: in GPS mode the orchestrator never encodes the location message from
\* the store while the GPS task is in the middle of a location update, in
\* singles mode or in packs mode.
C24_NoReadDuringUpdate ==
    [][EncodesLocation => ~MidLocationUpdate]_vars

(* ------------------------------------------------------------------ *)
(* Properties of cleanup                                               *)
(* ------------------------------------------------------------------ *)

\* cleanup is at its GPS part and its test of config.use_gps lets it call
\* pthread_join on gps_thread.
AboutToJoinGps == main_pc = "cleanup_gps" /\ config.use_gps

\* C25: cleanup joins the GPS task only when that task was started: when
\* init_gps fails, the process exits with failure without joining a GPS task
\* that was never created.
C25_JoinOnlyStarted ==
    /\ (AboutToJoinGps => gps_pc # "none")
    /\ (ProcessExited /\ config.use_gps /\ cleanup_code = 1 => exit_code = 1)

(* ------------------------------------------------------------------ *)
(* Properties of send_packs                                            *)
(* ------------------------------------------------------------------ *)

\* C26: in packs mode the pack is encoded once at the start of each
\* send_packs call and all transmissions of the call carry the same payload,
\* so a location update written during the call is not on the air before the
\* next call: the pack buffer changes only before the first transmission,
\* every transmission sends the buffer, and it sends what the transmission
\* before it in the same call sent.
C26_PackEncodedOnce ==
    /\ [][pack_enc' # pack_enc => tx_pc # "pack_send"]_vars
    /\ [][SendPack =>
            /\ \A k \in 1 .. Len(last_tx') : last_tx'[k].payload = pack_enc
            /\ (tx_step > 0 =>
                  \A j \in 1 .. Len(last_tx), k \in 1 .. Len(last_tx') :
                      last_tx'[k].payload = last_tx[j].payload)]_vars

\* In the middle of a send_packs call the store holds a fix that arrived
\* during the call, and the pack on the air still carries the location
\* encoded at the start of the call.
C26_Witness ==
    /\ tx_pc = "pack_send" /\ tx_step > 1
    /\ Len(last_tx) > 0
    /\ pack_enc.ok
    /\ pack_enc.Messages[3].msg = "Location"
    /\ fixes > 0 /\ gps_pc = "top"
    /\ pack_enc.Messages[3].loc # location
    /\ last_tx[1].payload = pack_enc

(* ------------------------------------------------------------------ *)
(* Termination of gps_loop                                             *)
(* ------------------------------------------------------------------ *)

\* The largest value each counter takes: the exit comes with the counter one
\* past the bound, and the post-increment adds one more.
WaitCeiling == MAX_GPS_WAIT_RETRIES + 2
ReadCeiling == MAX_GPS_READ_RETRIES + 2

\* A bound on the polls and reads gps_loop has left while no read succeeds:
\* the read failures left, each with a full run of not-ready polls before it,
\* and the not-ready polls left in the current run.
GpsRank ==
    (ReadCeiling - read_retries) * (WaitCeiling + 1)
        + (IF gps_pc = "read" THEN 0 ELSE WaitCeiling - retries)

GpsRunning == gps_pc \in {"top", "wait", "read", "update"}

\* C27: if no GPS read succeeds and no shutdown request arrives, gps_loop ends
\* with failure after a bounded number of iterations, whatever the
\* interleaving of not-ready polls and failed reads: every poll or read
\* without a successful read lowers a bound that never goes below zero (a
\* ready poll zeroes the wait counter, nothing but a successful read zeroes
\* the read counter), and the loop ends with exit_status 1 and kill_program set.
C27_BoundedFailure ==
    /\ [][(gps_pc' # gps_pc /\ gps_pc \in {"wait", "read"} /\ fixes' = 0) =>
            /\ GpsRank' < GpsRank
            /\ GpsRank' >= 0
            /\ read_retries' >= read_retries]_vars
    /\ (GpsRunning ~>
          (fixes > 0 \/ signalled \/ (gps_pc = "exited" /\ exit_status = 1 /\ kill_program)))

\* gps_loop has given up on failed reads that had not-ready polls between
\* them, with no successful read and no signal.
C27_Witness ==
    /\ gps_pc = "exited" /\ exit_status = 1 /\ kill_program
    /\ fixes = 0 /\ ~signalled
    /\ gps_event = "read_fail"
    /\ not_ready_run = 0
    /\ read_retries = ReadCeiling

(* ------------------------------------------------------------------ *)
(* The run without GPS                                                 *)
(* ------------------------------------------------------------------ *)

\* main has accepted a command line without the GPS option.
NoGpsRun == ~config.use_gps /\ main_pc \notin {"parse", "exited"}

\* C28: with GPS disabled the orchestrator performs exactly one transmission
\* cycle, one pass of the single messages or one burst of PackRepeats pack
\* transmissions, and the process then cleans up and ends with exit code 0,
\* with no shutdown request.
C28_OneCycleWithoutGps ==
    /\ [](~config.use_gps =>
            /\ cycles <= 1
            /\ ~kill_program
            /\ (ProcessExited /\ ~NoTransport(config) /\ ~InvalidCombination(config) =>
                  /\ exit_code = 0
                  /\ cycles = 1
                  /\ n_dispatched = CycleLength * Cardinality(EnabledTransports(config))))
    /\ (NoGpsRun ~> (ProcessExited /\ exit_code = 0))

\* A run without GPS has ended after one burst of packs on Beacon and BT5.
C28_Witness ==
    /\ ProcessExited /\ ~config.use_gps
    /\ config.use_packs /\ config.use_beacon /\ config.use_bt5
    /\ cycles = 1
    /\ n_dispatched = PackRepeats * 2
    /\ exit_code = 0

====
